---- MODULE Spec2Model ----
(***************************************************************************)
(* Model of the bakers-backend service: the product catalog handlers of    *)
(* src/server.js over the DynamoDB table, and the bearer-token gate of     *)
(* src/middleware/authMiddleware.js.                                       *)
(*                                                                         *)
(* A handler is an async function: it runs without interruption between    *)
(* two awaits, so each action below is one such segment together with the  *)
(* single store or key-resolver call that ends it.  Requests are handled   *)
(* in slots; two slots are enough to interleave two handlers.              *)
(***************************************************************************)
EXTENDS Integers, Sequences, FiniteSets, TLC

(***************************************************************************)
(* Bounds of the model.                                                    *)
(***************************************************************************)
MaxRequests == 2      \* requests received in one behaviour of Spec
MaxTime == 1          \* last clock value of Spec (timestamps are 0..MaxTime)
MaxNow == 8           \* last clock value of SpecGate

Slots == {1, 2}
Ids == {"cake_1", "cake_2"}

(***************************************************************************)
(* Strings are sequences of one-character strings, so that trim and        *)
(* toLowerCase are computed and not assumed.                               *)
(***************************************************************************)
RedVelvet == <<"R", "e", "d", " ", "V", "e", "l", "v", "e", "t">>
redVelvetPadded == <<" ", " ", "r", "e", "d", " ", "v", "e", "l", "v", "e", "t", " ", " ">>
mocha == <<"m", "o", "c", "h", "a">>
blanks == <<" ", " ">>

toLowerCaseChar(c) ==
  CASE c = "R" -> "r"
    [] c = "V" -> "v"
    [] c = "M" -> "m"
    [] OTHER -> c

toLowerCase(s) == [i \in 1..Len(s) |-> toLowerCaseChar(s[i])]

RECURSIVE trimStart(_)
trimStart(s) ==
  IF s # <<>> /\ Head(s) = " " THEN trimStart(Tail(s)) ELSE s

RECURSIVE trimEnd(_)
trimEnd(s) ==
  IF s # <<>> /\ s[Len(s)] = " " THEN trimEnd(SubSeq(s, 1, Len(s) - 1)) ELSE s

trim(s) == trimEnd(trimStart(s))

\* Timestamps are clock values 0, 1, ...; NoDate stands for a createdAt that the
\* item or body does not have, Epoch for new Date(0), which lies before every
\* timestamp.
NoDate == -2
Epoch == -1

(***************************************************************************)
(* Request bodies.  A title is a JSON value: absent, a string or a number. *)
(* The four variant fields are modelled by their presence.  A body that    *)
(* sends no id has id "", one that sends no createdAt or updatedAt has     *)
(* NoDate, one that sends no isActive is not told from one that sends true.*)
(* Field suggestions tells whether the body has an object of that name.    *)
(***************************************************************************)
Str(s) == [type |-> "string", s |-> s]
Undefined == [type |-> "undefined", s |-> <<>>]
Number == [type |-> "number", s |-> <<>>]

Body(t, c, range, weights) ==
  [title |-> t, customizable |-> c,
   price_range |-> range, weights_range |-> range,
   availableWeights |-> weights, defaultWeight |-> weights,
   id |-> "", createdAt |-> NoDate, updatedAt |-> NoDate, isActive |-> TRUE,
   suggestions |-> FALSE]

\* a body that also sends the metadata of a record
withMetadata(body, id, timestamp, isActive) ==
  [body EXCEPT !.id = id, !.createdAt = timestamp, !.updatedAt = timestamp,
               !.isActive = isActive]

NoBody == Body(Undefined, FALSE, FALSE, FALSE)

\* a body of the quick suggestions routes
SuggestionsBody(isObject) == [NoBody EXCEPT !.suggestions = isObject]

\* express.json() followed by sanitizeInput: every string of the body is trimmed
sanitizeInput(body) ==
  IF body.title.type = "string"
    THEN [body EXCEPT !.title = Str(trim(body.title.s))]
    ELSE body

MaxTitleLength == 100

\* "ok", "errors" (a non-empty error list) or "throws" (TypeError: trim is not a function)
validateProductData(productData) ==
  LET t == productData.title IN
  CASE t.type = "undefined" -> "errors"
    [] t.type = "number" -> "throws"
    [] OTHER ->
         IF t.s = <<>> \/ trim(t.s) = <<>> \/ Len(trim(t.s)) > MaxTitleLength
           THEN "errors" ELSE "ok"

(***************************************************************************)
(* The catalog table: a set of items with pairwise distinct ids.           *)
(***************************************************************************)
NoItem == [absent |-> TRUE]

\* ScanCommand with FilterExpression 'title = :title', :title the trimmed lower-cased title
scanByTitle(table, title) ==
  {item \in table : item.title = toLowerCase(trim(title))}

checkTitleExists(table, title, excludeId) ==
  LET items == scanByTitle(table, title) IN
  IF excludeId # "" THEN \E item \in items : item.id # excludeId
                    ELSE items # {}

\* variant: the key of the lookup is ignored
getProductById_anyItem(table, productId) ==
  IF table # {} THEN CHOOSE item \in table : TRUE ELSE NoItem

getProductById(table, productId) ==
  IF \E item \in table : item.id = productId
    THEN CHOOSE item \in table : item.id = productId
    ELSE NoItem

\* variant: the existence check is dropped
notFound_never(existingProduct) == FALSE

notFound(existingProduct) == existingProduct = NoItem

\* variant: no field is deleted
cleanUp_keepAll(product) == product

\* delete of the fields that do not belong to the variant
cleanUp(product) ==
  IF product.customizable
    THEN [product EXCEPT !.availableWeights = FALSE, !.defaultWeight = FALSE]
    ELSE [product EXCEPT !.price_range = FALSE, !.weights_range = FALSE]

\* { ...productData }: the fields of the body as fields of a record
spread(productData) ==
  [id |-> productData.id, title |-> productData.title.s,
   customizable |-> productData.customizable,
   price_range |-> productData.price_range,
   weights_range |-> productData.weights_range,
   availableWeights |-> productData.availableWeights,
   defaultWeight |-> productData.defaultWeight,
   createdAt |-> productData.createdAt, updatedAt |-> productData.updatedAt,
   isActive |-> productData.isActive]

\* the fields written after the spread replace those of the body
newProduct(productData, id, timestamp) ==
  cleanUp([spread(productData) EXCEPT
             !.id = id, !.title = trim(productData.title.s),
             !.createdAt = timestamp, !.updatedAt = timestamp, !.isActive = TRUE])

updatedProduct(productData, productId, existingProduct, timestamp) ==
  cleanUp([spread(productData) EXCEPT
             !.id = productId, !.title = trim(productData.title.s),
             !.createdAt = existingProduct.createdAt, !.updatedAt = timestamp,
             !.isActive = TRUE])

\* variant: the write carries no condition
conditionFails_never(table, item) == FALSE

\* variant: the condition of the write also refuses a stored title
conditionFails_idOrTitle(table, item) ==
  \E i \in table : i.id = item.id \/ toLowerCase(i.title) = toLowerCase(item.title)

\* ConditionExpression 'attribute_not_exists(id)' of the create: the write fails
\* with ConditionalCheckFailedException when the table holds an item of the key
conditionFails(table, item) == \E i \in table : i.id = item.id

\* variant: the write replaces an item, and writes nothing when there is none
putItem_onlyReplace(table, item) ==
  IF \E i \in table : i.id = item.id
    THEN {i \in table : i.id # item.id} \cup {item}
    ELSE table

\* PutItemCommand: writes the item, replacing the item of the same id
putItem(table, item) == {i \in table : i.id # item.id} \cup {item}

deleteItem(table, productId) == {i \in table : i.id # productId}

(***************************************************************************)
(* Responses.                                                              *)
(***************************************************************************)
Response(status, error, details) ==
  [status |-> status, error |-> error, details |-> details, data |-> <<>>]

NoResponse == Response(0, "", "")

sendErrorResponse(statusCode, errorCode) == Response(statusCode, errorCode, "")

sendSuccessResponse(data, statusCode) ==
  [status |-> statusCode, error |-> "", details |-> "", data |-> data]


(***************************************************************************)
(* Bearer tokens.  A token is described by what the gate and the verifier  *)
(* can observe of it: the number of dot-separated segments, what its first *)
(* segment decodes to, under which algorithm and key its signature         *)
(* verifies, and its claims.                                               *)
(***************************************************************************)
GOOGLE_AUDIENCE == "206866346769-jeemcd408i929s8puriktea1bovb2mnb.apps.googleusercontent.com"
GOOGLE_ISSUER == "https://accounts.google.com"

Keys == {"pub1", "pub2"}

\* json: "invalid" (JSON.parse throws), "null", "primitive" or "object"
JwtHeader(json, kid, alg) == [json |-> json, kid |-> kid, alg |-> alg]

\* alg "none" stands for an empty signature segment
Signature(alg, key) == [alg |-> alg, key |-> key]

Claims(iss, aud, exp, nbf) == [iss |-> iss, aud |-> aud, exp |-> exp, nbf |-> nbf]

Token(n, header, sig, claims) ==
  [n |-> n, header |-> header, sig |-> sig, claims |-> claims]

GoodClaims == Claims(GOOGLE_ISSUER, GOOGLE_AUDIENCE, 10, 0)

\* the token '' and tokens of 2 and 4 segments
ShortToken(n) ==
  Token(n, JwtHeader("object", "kid1", "RS256"), Signature("RS256", "pub1"), GoodClaims)

(***************************************************************************)
(* The Authorization header: absent, or its first word and the words that  *)
(* follow it, as authHeader.split(' ') yields them.                        *)
(***************************************************************************)
NoHeader == [present |-> FALSE, scheme |-> "", words |-> <<>>]
Header(scheme, words) == [present |-> TRUE, scheme |-> scheme, words |-> words]

\* variant: any scheme followed by a token is taken
startsWithBearer_anyScheme(authHeader) == Len(authHeader.words) >= 1

\* authHeader.startsWith('Bearer ')
startsWithBearer(authHeader) ==
  authHeader.scheme = "Bearer" /\ Len(authHeader.words) >= 1

\* variant: only too few segments are refused
notAJwt_tooFew(token) == token.n < 3

\* token.split('.').length !== 3
notAJwt(token) == token.n # 3

\* jws.verify(token, alg, key): the signature bytes verify under alg with key
jwsVerify(token, alg, key) == token.sig.alg = alg /\ token.sig.key = key

\* variant: the algorithm list is taken from the token header
verifyOptions_headerAlg(token) ==
  [algorithms |-> {token.header.alg}, audience |-> GOOGLE_AUDIENCE, issuer |-> GOOGLE_ISSUER,
   clockTolerance |-> 0]

\* the options of the jwt.verify call; no clockTolerance is passed
verifyOptions(token) ==
  [algorithms |-> {"RS256"}, audience |-> GOOGLE_AUDIENCE, issuer |-> GOOGLE_ISSUER,
   clockTolerance |-> 0]

\* jwt.verify(token, publicKey, options) at clock value clock: "ok" or err.message
jwtVerify(token, publicKey, options, clock) ==
  CASE token.sig.alg = "none" -> "jwt signature is required"
    [] token.header.alg \notin options.algorithms -> "invalid algorithm"
    [] ~jwsVerify(token, token.header.alg, publicKey) -> "invalid signature"
    [] token.claims.nbf > clock + options.clockTolerance -> "jwt not active"
    [] clock >= token.claims.exp + options.clockTolerance -> "jwt expired"
    [] token.claims.aud # options.audience -> "jwt audience invalid"
    [] token.claims.iss # options.issuer -> "jwt issuer invalid"
    [] OTHER -> "ok"

\* outcomes of await getSigningKey(kid)
KeyFound(key) == [error |-> "", key |-> key]
KeyError(name) == [error |-> name, key |-> ""]
KeyOutcomes ==
  {KeyFound(k) : k \in Keys} \cup {KeyError("SigningKeyNotFoundError"), KeyError("JwksError")}
NoOutcome == KeyError("pending")

Unauthorized(error, details) == Response(401, error, details)

\* the part of authMiddleware before await getSigningKey: a response, or "" to go on
authPrecheck(authHeader) ==
  IF ~authHeader.present \/ ~startsWithBearer(authHeader)
    THEN Unauthorized("Unauthorized: No token provided", "")
  ELSE LET token == authHeader.words[1] IN
    IF notAJwt(token)
      THEN Unauthorized("Invalid token: Not a JWT", "")
    ELSE IF token.header.json = "invalid"
      THEN Unauthorized("Invalid token: malformed header", "")
    ELSE IF token.header.json = "null"
      THEN Unauthorized("Unauthorized: Invalid token", "TypeError")
    ELSE NoResponse

\* the events of that part: does it decode the header, does it call getSigningKey
precheckOps(authHeader) ==
  IF ~authHeader.present \/ ~startsWithBearer(authHeader) THEN <<>>
  ELSE IF notAJwt(authHeader.words[1]) THEN <<>>
  ELSE IF authHeader.words[1].header.json \in {"invalid", "null"} THEN <<"decodeHeader">>
  ELSE <<"decodeHeader", "getSigningKey">>

\* the part of authMiddleware after await getSigningKey: "ok" or the err.message caught
authVerdict(token, outcome, clock) ==
  IF outcome.error # "" THEN outcome.error
  ELSE jwtVerify(token, outcome.key, verifyOptions(token), clock)

\* variant: next() is called whatever the verdict
callsNext_always(verdict) == TRUE

\* next() is called
callsNext(verdict) == verdict = "ok"

(***************************************************************************)
(* State.                                                                  *)
(***************************************************************************)
VARIABLES
  store,        \* the items of the catalog table
  suggestions,  \* the item 'all_suggestions' of the quick suggestions table, NoItem if none
  now,          \* the clock
  pc,           \* per slot: where the request of the slot stands
  req,          \* per slot: the request
  user,         \* per slot: req.user
  existing,     \* per slot: existingProduct of the PUT and DELETE handlers
  newId,        \* per slot: the id the POST handler generated, "" before it did
  resp,         \* per slot: the response sent, NoResponse while none is
  ops,          \* per slot: the verifier, pipeline and store calls made for the request
  outcome,      \* per slot: what await getSigningKey gave
  verifiedAt,   \* per slot: the clock value at which jwt.verify ran
  quiet,        \* per slot: no other request has written to the table since this one came
  idAbsent,     \* per slot: the path id was not in the table when the request came
  afterDelete,  \* per slot: the last write on the path id was a successful delete
  deleted,      \* ids whose last write was a DeleteItem
  overlapped,   \* some two requests were in flight together
  received      \* number of requests received

vars == <<store, suggestions, now, pc, req, user, existing, newId, resp, ops, outcome, verifiedAt,
          quiet, idAbsent, afterDelete, deleted, overlapped, received>>

gateVars == <<user, outcome, verifiedAt>>
catalogVars == <<store, suggestions, existing, newId, deleted>>
ghostVars == <<quiet, idAbsent, afterDelete, overlapped, received>>

\* a request of the product routes
Request(method, id, authorization, body) ==
  [method |-> method, path |-> "/api/products", id |-> id,
   authorization |-> authorization, body |-> body]

\* a request of the quick suggestions routes
SuggestionsRequest(method, authorization, body) ==
  [method |-> method, path |-> "/api/quick-suggestions", id |-> "",
   authorization |-> authorization, body |-> body]

\* the request of slot r has reached the handler of the route
Routed(r, method, path) ==
  pc[r] = "route" /\ req[r].method = method /\ req[r].path = path

NoUser == [anonymous |-> TRUE]

InFlight(r) == pc[r] \notin {"idle", "done"}

\* the table outlives the server: it is empty, or holds a product of an earlier create
InitialTables ==
  {{}, {newProduct(sanitizeInput(Body(Str(mocha), TRUE, TRUE, TRUE)), "cake_1", 0)}}

InitWith(tables) ==
  /\ store \in tables
  /\ suggestions = NoItem
  /\ now = 0
  /\ pc = [r \in Slots |-> "idle"]
  /\ req = [r \in Slots |-> Request("GET", "", NoHeader, NoBody)]
  /\ user = [r \in Slots |-> NoUser]
  /\ existing = [r \in Slots |-> NoItem]
  /\ newId = [r \in Slots |-> ""]
  /\ resp = [r \in Slots |-> NoResponse]
  /\ ops = [r \in Slots |-> <<>>]
  /\ outcome = [r \in Slots |-> NoOutcome]
  /\ verifiedAt = [r \in Slots |-> 0]
  /\ quiet = [r \in Slots |-> TRUE]
  /\ idAbsent = [r \in Slots |-> FALSE]
  /\ afterDelete = [r \in Slots |-> FALSE]
  /\ deleted = {}
  /\ overlapped = FALSE
  /\ received = 0

Init == InitWith(InitialTables)

\* a request enters slot r at position start
Enter(r, request, start, u) ==
  /\ req' = [req EXCEPT ![r] = request]
  /\ pc' = [pc EXCEPT ![r] = start]
  /\ user' = [user EXCEPT ![r] = u]
  /\ existing' = [existing EXCEPT ![r] = NoItem]
  /\ newId' = [newId EXCEPT ![r] = ""]
  /\ resp' = [resp EXCEPT ![r] = NoResponse]
  /\ ops' = [ops EXCEPT ![r] = <<>>]
  /\ outcome' = [outcome EXCEPT ![r] = NoOutcome]
  /\ verifiedAt' = [verifiedAt EXCEPT ![r] = 0]
  /\ quiet' = [quiet EXCEPT ![r] = TRUE]
  /\ idAbsent' = [idAbsent EXCEPT ![r] = \A item \in store : item.id # request.id]
  /\ afterDelete' = [afterDelete EXCEPT ![r] = request.id \in deleted]
  /\ overlapped' = (overlapped \/ \E o \in Slots \ {r} : InFlight(o))

\* the response ends the request
Send(r, response) ==
  /\ resp' = [resp EXCEPT ![r] = response]
  /\ pc' = [pc EXCEPT ![r] = "done"]

Goto(r, position) ==
  /\ pc' = [pc EXCEPT ![r] = position]
  /\ UNCHANGED resp

Did(r, calls) == ops' = [ops EXCEPT ![r] = ops[r] \o calls]

\* slot r has written to the table
Wrote(r) ==
  /\ quiet' = [q \in Slots |-> IF q # r /\ pc[q] # "idle" THEN FALSE ELSE quiet[q]]
  /\ UNCHANGED <<idAbsent, afterDelete, overlapped, received>>

(***************************************************************************)
(* The gate (src/middleware/authMiddleware.js).                            *)
(***************************************************************************)
ExpValues == {2, 7, 10}
NbfValues == {0, 5}

ObjectHeaders ==
  {JwtHeader("object", kid, alg) :
     kid \in {"kid1", "undefined"}, alg \in {"RS256", "HS256", "none"}}

JwtHeaders ==
  ObjectHeaders \cup
  {JwtHeader("invalid", "undefined", "undefined"),
   JwtHeader("null", "undefined", "undefined"),
   JwtHeader("primitive", "undefined", "undefined")}

Signatures ==
  {Signature("RS256", "pub1"), Signature("RS256", "pub2"),
   Signature("HS256", "pub1"), Signature("none", "")}

ClaimSets ==
  {Claims(iss, aud, exp, nbf) :
     iss \in {GOOGLE_ISSUER, "https://evil.example"},
     aud \in {GOOGLE_AUDIENCE, "other-client"},
     exp \in ExpValues, nbf \in NbfValues}

GateTokens ==
  {Token(3, h, sg, c) : h \in JwtHeaders, sg \in Signatures, c \in ClaimSets}
  \cup {ShortToken(n) : n \in {1, 2, 4}}

GoodToken ==
  Token(3, JwtHeader("object", "kid1", "RS256"), Signature("RS256", "pub1"), GoodClaims)

GateHeaders ==
  {NoHeader, Header("Bearer", <<>>), Header("Basic", <<GoodToken>>),
   Header("Bearer", <<ShortToken(1), GoodToken>>)}
  \cup {Header("Bearer", <<t>>) : t \in GateTokens}

GateSlots == {1}

\* the slot of an answered request becomes free
Release(r) ==
  /\ pc[r] = "done"
  /\ pc' = [pc EXCEPT ![r] = "idle"]
  /\ req' = [req EXCEPT ![r] = Request("GET", "", NoHeader, NoBody)]
  /\ user' = [user EXCEPT ![r] = NoUser]
  /\ existing' = [existing EXCEPT ![r] = NoItem]
  /\ newId' = [newId EXCEPT ![r] = ""]
  /\ resp' = [resp EXCEPT ![r] = NoResponse]
  /\ ops' = [ops EXCEPT ![r] = <<>>]
  /\ outcome' = [outcome EXCEPT ![r] = NoOutcome]
  /\ verifiedAt' = [verifiedAt EXCEPT ![r] = 0]
  /\ quiet' = [quiet EXCEPT ![r] = TRUE]
  /\ idAbsent' = [idAbsent EXCEPT ![r] = FALSE]
  /\ afterDelete' = [afterDelete EXCEPT ![r] = FALSE]
  /\ UNCHANGED <<store, suggestions, now, deleted, overlapped, received>>

\* the stage after the gate takes the request over
NextStage(r) ==
  /\ pc[r] = "route"
  /\ Send(r, sendSuccessResponse(<<>>, 200))
  /\ UNCHANGED <<store, suggestions, now, req, gateVars, existing, newId, ops, deleted, ghostVars>>

GateReceive(r) ==
  /\ r \in GateSlots
  /\ pc[r] = "idle"
  /\ \E h \in GateHeaders : Enter(r, Request("GET", "", h, NoBody), "auth", NoUser)
  /\ UNCHANGED <<store, suggestions, now, deleted, received>>

AuthStart(r) ==
  /\ pc[r] = "auth"
  /\ Did(r, precheckOps(req[r].authorization))
  /\ IF authPrecheck(req[r].authorization) # NoResponse
       THEN Send(r, authPrecheck(req[r].authorization))
       ELSE Goto(r, "auth_key")
  /\ UNCHANGED <<store, suggestions, now, req, gateVars, existing, newId, deleted, ghostVars>>

AuthKey(r) ==
  /\ pc[r] = "auth_key"
  /\ \E o \in KeyOutcomes, fetched \in BOOLEAN :
       LET token == req[r].authorization.words[1]
           verdict == authVerdict(token, o, now)
           calls == (IF fetched THEN <<"jwksFetch">> ELSE <<>>)
                    \o (IF o.error = "" THEN <<"jwt.verify">> ELSE <<>>)
       IN /\ o.error = "JwksError" => fetched
          /\ outcome' = [outcome EXCEPT ![r] = o]
          /\ verifiedAt' = [verifiedAt EXCEPT ![r] = now]
          /\ IF callsNext(verdict)
               THEN /\ user' = [user EXCEPT ![r] = token.claims]
                    /\ Did(r, calls \o <<"next">>)
                    /\ Goto(r, "route")
               ELSE /\ Did(r, calls)
                    /\ Send(r, Unauthorized("Unauthorized: Invalid token", verdict))
                    /\ UNCHANGED user
  /\ UNCHANGED <<store, suggestions, now, req, existing, newId, deleted, ghostVars>>

GateTick ==
  /\ now < MaxNow
  /\ now' = now + 1
  /\ UNCHANGED <<store, suggestions, pc, req, user, existing, newId, resp, ops, outcome, verifiedAt,
                 quiet, idAbsent, afterDelete, deleted, overlapped, received>>

NextGate ==
  \/ \E r \in Slots : GateReceive(r)
  \/ \E r \in Slots : AuthStart(r)
  \/ \E r \in Slots : AuthKey(r)
  \/ \E r \in Slots : NextStage(r)
  \/ \E r \in Slots : Release(r)
  \/ GateTick

SpecGate == Init /\ [][NextGate]_vars

(***************************************************************************)
(* Two requests at the gate, to compare the answers the gate gives to      *)
(* tokens it rejects for different reasons.                                *)
(***************************************************************************)
PairTokens ==
  {GoodToken,
   Token(3, JwtHeader("object", "kid1", "RS256"), Signature("RS256", "pub1"),
         Claims("https://evil.example", GOOGLE_AUDIENCE, 10, 0)),
   Token(3, JwtHeader("object", "kid1", "RS256"), Signature("RS256", "pub1"),
         Claims(GOOGLE_ISSUER, "other-client", 10, 0))}

PairReceive(r) ==
  /\ pc[r] = "idle"
  /\ \E t \in PairTokens :
       Enter(r, Request("GET", "", Header("Bearer", <<t>>), NoBody), "auth", NoUser)
  /\ UNCHANGED <<store, suggestions, now, deleted, received>>

NextPair ==
  \/ \E r \in Slots : PairReceive(r)
  \/ \E r \in Slots : AuthStart(r)
  \/ \E r \in Slots : AuthKey(r)
  \/ \E r \in Slots : NextStage(r)
  \/ \E r \in Slots : Release(r)

SpecPair == Init /\ [][NextPair]_vars

(***************************************************************************)
(* The catalog handlers (src/server.js).  The requests of Spec have passed *)
(* the gate: they enter at the route handler with req.user set.            *)
(***************************************************************************)
\* the body of title mocha is a record as a listing returned it some time ago,
\* sent back with its id, timestamps and an isActive of false
RawBodies ==
  {Body(Str(RedVelvet), TRUE, FALSE, TRUE), Body(Str(redVelvetPadded), FALSE, TRUE, TRUE),
   withMetadata(Body(Str(mocha), TRUE, TRUE, TRUE), "cake_2", 7, FALSE),
   Body(Str(blanks), FALSE, FALSE, TRUE),
   Body(Number, FALSE, FALSE, TRUE)}

Requests ==
  {Request("POST", "", Header("Bearer", <<GoodToken>>), sanitizeInput(b)) : b \in RawBodies}
  \cup {Request("PUT", id, Header("Bearer", <<GoodToken>>), sanitizeInput(b)) :
          id \in Ids, b \in RawBodies}
  \cup {Request("DELETE", id, Header("Bearer", <<GoodToken>>), NoBody) : id \in Ids}
  \cup {Request("GET", "", Header("Bearer", <<GoodToken>>), NoBody)}

Receive(r) ==
  /\ pc[r] = "idle"
  /\ received < MaxRequests
  /\ \E request \in Requests : Enter(r, request, "route", GoodClaims)
  /\ received' = received + 1
  /\ UNCHANGED <<store, suggestions, now, deleted>>

\* the sequences that list the items of a set once each
Orderings(items) ==
  {s \in [1..Cardinality(items) -> items] : \A i, j \in 1..Cardinality(items) : s[i] = s[j] => i = j}

\* new Date(a.createdAt || 0): the date of a missing createdAt is the epoch
dateOf(createdAt) == IF createdAt = NoDate THEN Epoch ELSE createdAt

\* variant: oldest first
sortedProducts_oldestFirst(items) ==
  {s \in Orderings(items) :
     \A i, j \in 1..Len(s) : i < j => dateOf(s[i].createdAt) <= dateOf(s[j].createdAt)}

\* products.sort((a, b) => dateB - dateA) of a scan in any order: newest first,
\* items of equal date in the order of the scan
sortedProducts(items) ==
  {s \in Orderings(items) :
     \A i, j \in 1..Len(s) : i < j => dateOf(s[i].createdAt) >= dateOf(s[j].createdAt)}

\* GET /api/products
List(r) ==
  /\ Routed(r, "GET", "/api/products")
  /\ Did(r, <<"Scan">>)
  /\ \E answered \in BOOLEAN :
       IF answered
         THEN \E s \in sortedProducts(store) : Send(r, sendSuccessResponse(s, 200))
         ELSE Send(r, sendErrorResponse(500, "DATABASE_ERROR"))
  /\ UNCHANGED <<store, suggestions, now, req, gateVars, existing, newId, deleted, ghostVars>>

(***************************************************************************)
(* Listings of tables of up to four products, some of them written before  *)
(* createdAt was kept.                                                     *)
(***************************************************************************)
ListIds == Ids \cup {"cake_3", "cake_4"}
ListDates == {NoDate, 0, 1, 2}

ListItem(id, createdAt) ==
  [newProduct(sanitizeInput(Body(Str(mocha), TRUE, TRUE, TRUE)), id, 0)
     EXCEPT !.createdAt = createdAt]

ListTables ==
  {{ListItem(id, date[id]) : id \in ids} : ids \in SUBSET ListIds, date \in [ListIds -> ListDates]}

ListReceive(r) ==
  /\ pc[r] = "idle"
  /\ Enter(r, Request("GET", "", Header("Bearer", <<GoodToken>>), NoBody), "route", GoodClaims)
  /\ UNCHANGED <<store, suggestions, now, deleted, received>>

NextList ==
  \/ \E r \in Slots : ListReceive(r)
  \/ \E r \in Slots : List(r)
  \/ \E r \in Slots : Release(r)

SpecList == InitWith(ListTables) /\ [][NextList]_vars

\* validation and the title scan of POST and PUT; excludeId is "" for POST
CheckTitle(r, excludeId, position) ==
  LET productData == req[r].body IN
  CASE validateProductData(productData) = "throws" ->
         Send(r, sendErrorResponse(500, "DATABASE_ERROR")) /\ UNCHANGED ops
    [] validateProductData(productData) = "errors" ->
         Send(r, sendErrorResponse(400, "VALIDATION_ERROR")) /\ UNCHANGED ops
    [] OTHER ->
         /\ Did(r, <<"Scan">>)
         /\ \E answered \in BOOLEAN :
              IF ~answered
                THEN Send(r, sendErrorResponse(500, "DATABASE_ERROR"))
              ELSE IF checkTitleExists(store, productData.title.s, excludeId)
                THEN Send(r, sendErrorResponse(400, "DUPLICATE_TITLE"))
              ELSE Goto(r, position)

\* POST /api/products up to await checkTitleExists
PostCheck(r) ==
  /\ Routed(r, "POST", "/api/products")
  /\ CheckTitle(r, "", "post_put")
  /\ UNCHANGED <<store, suggestions, now, req, gateVars, existing, newId, deleted, ghostVars>>

\* POST /api/products from the new record to the response; the id is generated
PostPut(r) ==
  /\ pc[r] = "post_put"
  /\ Did(r, <<"PutItem">>)
  /\ \E id \in Ids, answered \in BOOLEAN :
       LET item == newProduct(req[r].body, id, now) IN
       /\ newId' = [newId EXCEPT ![r] = id]
       /\ IF ~answered
            THEN Send(r, sendErrorResponse(500, "DATABASE_ERROR")) /\ UNCHANGED <<store, deleted, ghostVars>>
          ELSE IF conditionFails(store, item)
            THEN Send(r, sendErrorResponse(409, "DUPLICATE_ID")) /\ UNCHANGED <<store, deleted, ghostVars>>
          ELSE /\ Wrote(r)
               /\ store' = putItem(store, item)
               /\ deleted' = deleted \ {id}
               /\ Send(r, sendSuccessResponse(<<item>>, 201))
  /\ UNCHANGED <<suggestions, now, req, gateVars, existing>>

\* PUT /api/products/:id up to await checkTitleExists
PutCheck(r) ==
  /\ Routed(r, "PUT", "/api/products")
  /\ IF req[r].id = ""
       THEN Send(r, sendErrorResponse(400, "MISSING_ID")) /\ UNCHANGED ops
       ELSE CheckTitle(r, req[r].id, "put_get")
  /\ UNCHANGED <<store, suggestions, now, req, gateVars, existing, newId, deleted, ghostVars>>

\* await getProductById of PUT and DELETE, and the not-found answer
GetExisting(r, position) ==
  /\ Did(r, <<"GetItem">>)
  /\ \E answered \in BOOLEAN :
       IF ~answered
         THEN Send(r, sendErrorResponse(500, "DATABASE_ERROR")) /\ UNCHANGED existing
       ELSE /\ existing' = [existing EXCEPT ![r] = getProductById(store, req[r].id)]
            /\ IF notFound(getProductById(store, req[r].id))
                 THEN Send(r, sendErrorResponse(404, "PRODUCT_NOT_FOUND"))
                 ELSE Goto(r, position)

PutGet(r) ==
  /\ pc[r] = "put_get"
  /\ GetExisting(r, "put_put")
  /\ UNCHANGED <<store, suggestions, now, req, gateVars, newId, deleted, ghostVars>>

\* PUT /api/products/:id from the updated record to the response
PutPut(r) ==
  /\ pc[r] = "put_put"
  /\ Did(r, IF existing[r] = NoItem THEN <<>> ELSE <<"PutItem">>)
  /\ \E answered \in BOOLEAN :
       LET item == updatedProduct(req[r].body, req[r].id, existing[r], now) IN
       IF ~answered \/ existing[r] = NoItem   \* existingProduct.createdAt of null throws
         THEN Send(r, sendErrorResponse(500, "DATABASE_ERROR")) /\ UNCHANGED <<store, deleted, ghostVars>>
       ELSE /\ Wrote(r)
            /\ store' = putItem(store, item)
            /\ deleted' = deleted \ {req[r].id}
            /\ Send(r, sendSuccessResponse(<<item>>, 200))
  /\ UNCHANGED <<suggestions, now, req, gateVars, existing, newId>>

\* DELETE /api/products/:id up to await getProductById
DeleteGet(r) ==
  /\ Routed(r, "DELETE", "/api/products")
  /\ IF req[r].id = ""
       THEN Send(r, sendErrorResponse(400, "MISSING_ID")) /\ UNCHANGED <<ops, existing>>
       ELSE GetExisting(r, "delete_del")
  /\ UNCHANGED <<store, suggestions, now, req, gateVars, newId, deleted, ghostVars>>

\* DELETE /api/products/:id from the DeleteItemCommand to the response
DeleteDel(r) ==
  /\ pc[r] = "delete_del"
  /\ Did(r, <<"DeleteItem">>)
  /\ \E answered \in BOOLEAN :
       IF ~answered
         THEN Send(r, sendErrorResponse(500, "DATABASE_ERROR")) /\ UNCHANGED <<store, deleted, ghostVars>>
       ELSE /\ Wrote(r)
            /\ store' = deleteItem(store, req[r].id)
            /\ deleted' = deleted \cup {req[r].id}
            /\ Send(r, sendSuccessResponse(<<>>, 200))
  /\ UNCHANGED <<suggestions, now, req, gateVars, existing, newId>>

(***************************************************************************)
(* The quick suggestions handlers.  The table 'quickSuggestion' holds at   *)
(* most the item 'all_suggestions'; of the item the model keeps the two    *)
(* timestamps, the cleaned suggestions themselves play no part.            *)
(***************************************************************************)
SuggestionRecord(createdAt, updatedAt) == [createdAt |-> createdAt, updatedAt |-> updatedAt]

\* GET /api/quick-suggestions
SuggestionsGet(r) ==
  /\ Routed(r, "GET", "/api/quick-suggestions")
  /\ Did(r, <<"suggestions.GetItem">>)
  /\ \E answered \in BOOLEAN :
       IF answered
         THEN Send(r, sendSuccessResponse(<<>>, 200))
         ELSE Send(r, sendErrorResponse(500, "DATABASE_ERROR"))
  /\ UNCHANGED <<store, suggestions, now, req, gateVars, existing, newId, deleted, ghostVars>>

\* POST /api/quick-suggestions
SuggestionsPost(r) ==
  /\ Routed(r, "POST", "/api/quick-suggestions")
  /\ IF ~req[r].body.suggestions
       THEN Send(r, sendErrorResponse(400, "VALIDATION_ERROR")) /\ UNCHANGED <<ops, suggestions>>
       ELSE /\ Did(r, <<"suggestions.PutItem">>)
            /\ \E answered \in BOOLEAN :
                 IF answered
                   THEN /\ suggestions' = SuggestionRecord(now, now)
                        /\ Send(r, sendSuccessResponse(<<>>, 200))
                   ELSE Send(r, sendErrorResponse(500, "DATABASE_ERROR")) /\ UNCHANGED suggestions
  /\ UNCHANGED <<store, now, req, gateVars, existing, newId, deleted, ghostVars>>

\* PUT /api/quick-suggestions up to the GetItemCommand
SuggestionsPutGet(r) ==
  /\ Routed(r, "PUT", "/api/quick-suggestions")
  /\ IF ~req[r].body.suggestions
       THEN Send(r, sendErrorResponse(400, "VALIDATION_ERROR")) /\ UNCHANGED <<ops, existing>>
       ELSE /\ Did(r, <<"suggestions.GetItem">>)
            /\ \E answered \in BOOLEAN :
                 IF answered
                   THEN existing' = [existing EXCEPT ![r] = suggestions] /\ Goto(r, "suggestions_put")
                   ELSE Send(r, sendErrorResponse(500, "DATABASE_ERROR")) /\ UNCHANGED existing
  /\ UNCHANGED <<store, suggestions, now, req, gateVars, newId, deleted, ghostVars>>

\* PUT /api/quick-suggestions from the updated record to the response
SuggestionsPutPut(r) ==
  /\ pc[r] = "suggestions_put"
  /\ Did(r, <<"suggestions.PutItem">>)
  /\ \E answered \in BOOLEAN :
       IF answered
         THEN /\ suggestions' =
                   SuggestionRecord(IF existing[r] = NoItem THEN now ELSE existing[r].createdAt, now)
              /\ Send(r, sendSuccessResponse(<<>>, 200))
         ELSE Send(r, sendErrorResponse(500, "DATABASE_ERROR")) /\ UNCHANGED suggestions
  /\ UNCHANGED <<store, now, req, gateVars, existing, newId, deleted, ghostVars>>

\* DELETE /api/quick-suggestions
SuggestionsDelete(r) ==
  /\ Routed(r, "DELETE", "/api/quick-suggestions")
  /\ Did(r, <<"suggestions.DeleteItem">>)
  /\ \E answered \in BOOLEAN :
       IF answered
         THEN suggestions' = NoItem /\ Send(r, sendSuccessResponse(<<>>, 200))
         ELSE Send(r, sendErrorResponse(500, "DATABASE_ERROR")) /\ UNCHANGED suggestions
  /\ UNCHANGED <<store, now, req, gateVars, existing, newId, deleted, ghostVars>>

Tick ==
  /\ now < MaxTime
  /\ now' = now + 1
  /\ UNCHANGED <<store, suggestions, pc, req, user, existing, newId, resp, ops, outcome, verifiedAt,
                 quiet, idAbsent, afterDelete, deleted, overlapped, received>>

Next ==
  \/ \E r \in Slots : Receive(r)
  \/ \E r \in Slots : List(r)
  \/ \E r \in Slots : PostCheck(r)
  \/ \E r \in Slots : PostPut(r)
  \/ \E r \in Slots : PutCheck(r)
  \/ \E r \in Slots : PutGet(r)
  \/ \E r \in Slots : PutPut(r)
  \/ \E r \in Slots : DeleteGet(r)
  \/ \E r \in Slots : DeleteDel(r)
  \/ \E r \in Slots : Release(r)
  \/ Tick

Spec == Init /\ [][Next]_vars

(***************************************************************************)
(* The pipeline: requests enter without a token or with one, pass the gate *)
(* where the route has it, and reach the handlers of both tables.  The     *)
(* token is turned down when the resolver fails or yields another key.     *)
(* The clock stands still here: no step of the pipeline reads it but to    *)
(* stamp records.                                                          *)
(***************************************************************************)
\* variant: the gate stands before the writing methods only
protected_writesOnly(method, path) == method \in {"POST", "PUT", "DELETE"}

\* app.use('/api/products', authMiddleware), and authMiddleware in the POST,
\* PUT and DELETE routes of /api/quick-suggestions
protected(method, path) ==
  \/ path = "/api/products"
  \/ path = "/api/quick-suggestions" /\ method \in {"POST", "PUT", "DELETE"}

PipelineHeaders ==
  {NoHeader, Header("Bearer", <<GoodToken>>)}

PipelineRequests ==
  {Request("GET", "", h, NoBody) : h \in PipelineHeaders}
  \cup {Request("POST", "", h, sanitizeInput(Body(Str(RedVelvet), TRUE, FALSE, TRUE))) :
          h \in PipelineHeaders}
  \cup {Request("PUT", "cake_1", h, sanitizeInput(Body(Str(mocha), TRUE, TRUE, TRUE))) :
          h \in PipelineHeaders}
  \cup {Request("DELETE", "cake_1", h, NoBody) : h \in PipelineHeaders}
  \cup {SuggestionsRequest("GET", h, NoBody) : h \in PipelineHeaders}
  \cup {SuggestionsRequest(m, h, SuggestionsBody(TRUE)) :
          m \in {"POST", "PUT"}, h \in PipelineHeaders}
  \cup {SuggestionsRequest("POST", h, SuggestionsBody(FALSE)) : h \in PipelineHeaders}
  \cup {SuggestionsRequest("DELETE", h, NoBody) : h \in PipelineHeaders}

PipelineReceive(r) ==
  /\ pc[r] = "idle"
  /\ received < MaxRequests
  /\ \E request \in PipelineRequests :
       Enter(r, request,
             IF protected(request.method, request.path) THEN "auth" ELSE "route", NoUser)
  /\ received' = received + 1
  /\ UNCHANGED <<store, suggestions, now, deleted>>

NextPipeline ==
  \/ \E r \in Slots : PipelineReceive(r)
  \/ \E r \in Slots : AuthStart(r)
  \/ \E r \in Slots : AuthKey(r)
  \/ \E r \in Slots : List(r)
  \/ \E r \in Slots : PostCheck(r)
  \/ \E r \in Slots : PostPut(r)
  \/ \E r \in Slots : PutCheck(r)
  \/ \E r \in Slots : PutGet(r)
  \/ \E r \in Slots : PutPut(r)
  \/ \E r \in Slots : DeleteGet(r)
  \/ \E r \in Slots : DeleteDel(r)
  \/ \E r \in Slots : SuggestionsGet(r)
  \/ \E r \in Slots : SuggestionsPost(r)
  \/ \E r \in Slots : SuggestionsPutGet(r)
  \/ \E r \in Slots : SuggestionsPutPut(r)
  \/ \E r \in Slots : SuggestionsDelete(r)
  \/ \E r \in Slots : Release(r)

SpecPipeline == Init /\ [][NextPipeline]_vars

(***************************************************************************)
(* Properties.                                                             *)
(***************************************************************************)
Called(r, call) == \E i \in 1..Len(ops[r]) : ops[r][i] = call

Answered(r, method) == pc[r] = "done" /\ req[r].method = method

normalized(title) == toLowerCase(trim(title))

\* C1: as long as no two catalog requests have overlapped, no two products of
\* the table have titles that are equal after trimming and lower-casing (a
\* create or update with such a title is rejected and writes nothing).
C1_NoDuplicateTitles ==
  ~overlapped =>
    \A a, b \in store : a.id # b.id => normalized(a.title) # normalized(b.title)

\* C2 as stated: a validated PUT for an id that is not in the table, handled
\* while no other request writes to the table and with the table answering, returns
\* PRODUCT_NOT_FOUND and issues no write, whatever its title.
C2_AbsentIdAlwaysNotFound ==
  \A r \in Slots :
    (/\ Answered(r, "PUT") /\ idAbsent[r] /\ quiet[r]
     /\ validateProductData(req[r].body) = "ok"
     /\ resp[r].error # "DATABASE_ERROR")
    => resp[r].error = "PRODUCT_NOT_FOUND" /\ ~Called(r, "PutItem")

\* C2 amended: such a PUT issues no write, and it returns PRODUCT_NOT_FOUND
\* unless the trimmed lower-cased title of the body is the stored title of a
\* product (necessarily of another id), in which case it returns
\* DUPLICATE_TITLE before the id is looked up.
C2_AbsentIdNoWrite ==
  \A r \in Slots :
    (/\ Answered(r, "PUT") /\ idAbsent[r] /\ quiet[r]
     /\ validateProductData(req[r].body) = "ok"
     /\ resp[r].error # "DATABASE_ERROR")
    => /\ ~Called(r, "PutItem")
       /\ \A item \in store : item.id # req[r].id
       /\ resp[r].error =
            IF \E item \in store : item.title = normalized(req[r].body.title.s)
              THEN "DUPLICATE_TITLE" ELSE "PRODUCT_NOT_FOUND"

C2_Witness ==
  \E r \in Slots :
    /\ Answered(r, "PUT") /\ idAbsent[r] /\ quiet[r]
    /\ store # {}
    /\ resp[r].error = "PRODUCT_NOT_FOUND"

\* C3: a DELETE, while no other request writes to the table, for an id that is not
\* in the table, in particular one that follows a successful delete of the
\* same id with no write of that id in between, issues no DeleteItem, never
\* reports success and, the table answering, returns PRODUCT_NOT_FOUND; a
\* DELETE of an id that is in the table succeeds and removes it.
C3_DeleteOfAbsentId ==
  \A r \in Slots :
    (Answered(r, "DELETE") /\ quiet[r]) =>
      /\ (idAbsent[r] \/ afterDelete[r]) =>
           /\ ~Called(r, "DeleteItem")
           /\ resp[r].status # 200
           /\ resp[r].error # "DATABASE_ERROR" => resp[r].error = "PRODUCT_NOT_FOUND"
      /\ (~idAbsent[r] /\ resp[r].error # "DATABASE_ERROR") =>
           /\ resp[r].status = 200
           /\ \A item \in store : item.id # req[r].id

C3_Witness ==
  \E r \in Slots :
    /\ Answered(r, "DELETE") /\ quiet[r] /\ afterDelete[r]
    /\ resp[r].error = "PRODUCT_NOT_FOUND"

GateFinished(r) == pc[r] \in {"route", "done"}

bearerToken(r) == req[r].authorization.words[1]

UsesBearer(r) ==
  /\ req[r].authorization.present
  /\ req[r].authorization.scheme = "Bearer"
  /\ req[r].authorization.words # <<>>

\* the token of the request passed every check of the gate
Verified(r) ==
  /\ UsesBearer(r)
  /\ bearerToken(r).n = 3
  /\ bearerToken(r).header.json \in {"primitive", "object"}
  /\ outcome[r].error = ""
  /\ jwtVerify(bearerToken(r), outcome[r].key, verifyOptions(bearerToken(r)), verifiedAt[r]) = "ok"

\* C4: the gate calls next() exactly when the verification succeeded, and then
\* req.user holds the decoded claims and the gate has sent nothing; otherwise
\* it has sent a 401 and next() was not called.  While the gate runs, neither
\* has happened.
C4_NextIffVerified ==
  \A r \in Slots :
    /\ GateFinished(r) =>
         /\ Called(r, "next") <=> Verified(r)
         /\ Called(r, "next") => user[r] = bearerToken(r).claims /\ resp[r].status # 401
         /\ ~Called(r, "next") => resp[r].status = 401 /\ user[r] = NoUser
    /\ pc[r] \in {"auth", "auth_key"} => ~Called(r, "next") /\ resp[r] = NoResponse

C4_Witness ==
  \E r \in Slots :
    /\ pc[r] = "route" /\ Called(r, "next")
    /\ user[r] = GoodClaims /\ resp[r] = NoResponse

\* C5: a request without Authorization header, or whose header does not start
\* with 'Bearer ', is answered 401 'No token provided' and nothing of the
\* verifier has run for it: no header decoding, no key resolution, no fetch.
C5_NoTokenShortCircuit ==
  \A r \in Slots :
    (GateFinished(r) /\ ~UsesBearer(r)) =>
      /\ resp[r] = Unauthorized("Unauthorized: No token provided", "")
      /\ ops[r] = <<>>

C5_Witness ==
  \E r \in Slots :
    /\ pc[r] = "done" /\ req[r].authorization.scheme = "Basic"
    /\ resp[r].status = 401

\* C6: a bearer token with fewer or more than three dot-separated segments is
\* answered 401 'Not a JWT', and getSigningKey is not called for it.
C6_NotThreeSegments ==
  \A r \in Slots :
    (GateFinished(r) /\ UsesBearer(r) /\ bearerToken(r).n # 3) =>
      /\ resp[r] = Unauthorized("Invalid token: Not a JWT", "")
      /\ ~Called(r, "getSigningKey") /\ ~Called(r, "jwksFetch")

C6_Witness ==
  \E r \in Slots :
    /\ pc[r] = "done" /\ UsesBearer(r) /\ bearerToken(r).n = 4
    /\ resp[r].error = "Invalid token: Not a JWT"

\* C7: every token the gate lets through names RS256 in its header and has a
\* signature that verifies under RS256 with the resolved key; a token of any
\* other header algorithm is rejected whatever key was resolved.
C7_PinnedAlgorithm ==
  \A r \in Slots :
    /\ Called(r, "next") =>
         /\ bearerToken(r).header.alg = "RS256"
         /\ jwsVerify(bearerToken(r), "RS256", outcome[r].key)
    /\ (GateFinished(r) /\ UsesBearer(r) /\ bearerToken(r).header.alg # "RS256") =>
         resp[r].status = 401

\* an HS256 token whose MAC verifies with the resolved public key is rejected
C7_Witness ==
  \E r \in Slots :
    /\ pc[r] = "done" /\ UsesBearer(r)
    /\ bearerToken(r).header.alg = "HS256"
    /\ outcome[r].error = ""
    /\ jwsVerify(bearerToken(r), "HS256", outcome[r].key)
    /\ resp[r] = Unauthorized("Unauthorized: Invalid token", "invalid algorithm")

\* the token of the request is valid but for its expiry
ValidButExpiry(r) ==
  /\ UsesBearer(r)
  /\ bearerToken(r).n = 3
  /\ bearerToken(r).header.json = "object"
  /\ bearerToken(r).header.alg = "RS256"
  /\ outcome[r].error = ""
  /\ jwsVerify(bearerToken(r), "RS256", outcome[r].key)
  /\ bearerToken(r).claims.iss = GOOGLE_ISSUER
  /\ bearerToken(r).claims.aud = GOOGLE_AUDIENCE
  /\ bearerToken(r).claims.nbf <= verifiedAt[r]

\* C8: with a clock-skew tolerance of 5 seconds, an otherwise valid token is
\* rejected when its expiry lies more than 5 seconds in the past and accepted
\* when it lies less than 5 seconds in the past (1 second past expiry).
C8_ClockSkewTolerance ==
  \A r \in Slots :
    (GateFinished(r) /\ ValidButExpiry(r)) =>
      LET late == verifiedAt[r] - bearerToken(r).claims.exp IN
      /\ late > 5 => resp[r].status = 401
      /\ (late >= 1 /\ late < 5) => Called(r, "next")

\* C10: when the key-set fetch fails, the gate answers with a 5xx status, which
\* tells the failure apart from an unknown key id and from an invalid token.
C10_FetchFailureIsUpstream ==
  \A r \in Slots :
    (pc[r] = "done" /\ outcome[r].error = "JwksError") => resp[r].status >= 500

\* why the verification of the answered request failed, among the reasons
\* C11 names; "other" for every other request
RejectionReason(r) ==
  IF ~(pc[r] = "done" /\ resp[r].status = 401 /\ UsesBearer(r)) THEN "other"
  ELSE IF outcome[r].error = "SigningKeyNotFoundError" THEN "unknown key"
  ELSE IF outcome[r].error # "" THEN "other"
  ELSE IF ~jwsVerify(bearerToken(r), "RS256", outcome[r].key) THEN "bad signature"
  ELSE IF bearerToken(r).claims.aud # GOOGLE_AUDIENCE THEN "wrong audience"
  ELSE IF bearerToken(r).claims.iss # GOOGLE_ISSUER THEN "wrong issuer"
  ELSE "other"

\* C11: two tokens rejected for different reasons among unknown key, wrong
\* issuer, wrong audience and bad signature get the same 401 response, status
\* and body, and the body holds no key material.
C11_UniformRejection ==
  \A r, o \in Slots :
    (/\ RejectionReason(r) # "other" /\ RejectionReason(o) # "other"
     /\ RejectionReason(r) # RejectionReason(o))
    => /\ resp[r] = resp[o]
       /\ resp[r].details \notin Keys

\* C12: the write of a create leaves every record of the table as it was; when
\* the generated id is the id of a record and the table answers, the create is
\* answered 409 DUPLICATE_ID (not DATABASE_ERROR) and the table is unchanged;
\* a create that succeeds has written a record under an id that was free.
C12_CreateNeverOverwrites ==
  [][\A r \in Slots :
       (pc[r] = "post_put" /\ pc'[r] = "done") =>
         /\ \A i \in store : i \in store'
         /\ ((\E i \in store : i.id = newId'[r]) /\ resp'[r].error # "DATABASE_ERROR")
              => resp'[r] = sendErrorResponse(409, "DUPLICATE_ID") /\ store' = store
         /\ resp'[r].status = 201
              => /\ \A i \in store : i.id # newId'[r]
                 /\ \E i \in store' : i.id = newId'[r]]_vars

\* a create whose generated id is the id of a product of another title
C12_Witness ==
  \E r \in Slots :
    /\ Answered(r, "POST") /\ resp[r].error = "DUPLICATE_ID"
    /\ \E i \in store : i.id = newId[r] /\ i.title # trim(req[r].body.title.s)

\* the fields of the customizable variant, and those of the other variant
hasRangeFields(item) == item.price_range /\ item.weights_range
hasWeightFields(item) == item.availableWeights /\ item.defaultWeight

\* C13 as stated: every record of the table carries exactly one of the two
\* variant field-sets, never both and never neither.
C13_ExactlyOneVariant ==
  \A item \in store :
    /\ hasRangeFields(item) \/ hasWeightFields(item)
    /\ ~(hasRangeFields(item) /\ hasWeightFields(item))

\* C13 amended: no record of the table carries a field of the variant it is
\* not: a customizable record has neither availableWeights nor defaultWeight,
\* any other record has neither price_range nor weights_range.  (The fields of
\* its own variant are stored as the body gave them, and may be missing.)
C13_NoFieldOfOtherVariant ==
  \A item \in store :
    /\ item.customizable => ~item.availableWeights /\ ~item.defaultWeight
    /\ ~item.customizable => ~item.price_range /\ ~item.weights_range

\* a create or update whose body carried both field-sets has stored one of them
C13_Witness ==
  \E r \in Slots :
    /\ pc[r] = "done" /\ req[r].method \in {"POST", "PUT"} /\ resp[r].status \in {200, 201}
    /\ hasRangeFields(req[r].body) /\ hasWeightFields(req[r].body)
    /\ resp[r].data[1] \in store
    /\ hasRangeFields(resp[r].data[1]) # hasWeightFields(resp[r].data[1])

\* the title of the body is missing, not a string, empty after trimming or
\* longer than 100 characters
TitleIsInputError(body) ==
  \/ body.title.type # "string"
  \/ trim(body.title.s) = <<>>
  \/ Len(trim(body.title.s)) > 100

\* C14: a create or update whose title is a client input error is answered
\* with a 4xx status and VALIDATION_ERROR, and no read or write of the table
\* was made for it.
C14_TitleErrorsAreValidationErrors ==
  \A r \in Slots :
    (/\ pc[r] = "done" /\ req[r].method \in {"POST", "PUT"}
     /\ req[r].method = "PUT" => req[r].id # ""
     /\ TitleIsInputError(req[r].body))
    => /\ resp[r].status >= 400 /\ resp[r].status < 500
       /\ resp[r].error = "VALIDATION_ERROR"
       /\ ops[r] = <<>>

\* C15: a listing returns the products of the scanned table, each once, those
\* with a createdAt first and by createdAt descending, those without a
\* createdAt after all of them.
C15_NewestFirst ==
  \A r \in Slots :
    (Answered(r, "GET") /\ resp[r].status = 200) =>
      LET s == resp[r].data IN
      /\ Len(s) = Cardinality(store)
      /\ {s[i] : i \in 1..Len(s)} = store
      /\ \A i, j \in 1..Len(s) :
           (i < j /\ s[j].createdAt # NoDate) =>
             s[i].createdAt # NoDate /\ s[i].createdAt >= s[j].createdAt

\* products created at T1 < T2 < T3 listed as T3, T2, T1, before one without createdAt
C15_Witness ==
  \E r \in Slots :
    /\ Answered(r, "GET") /\ resp[r].status = 200 /\ Len(resp[r].data) = 4
    /\ resp[r].data[1].createdAt = 2 /\ resp[r].data[2].createdAt = 1
    /\ resp[r].data[3].createdAt = 0 /\ resp[r].data[4].createdAt = NoDate

\* C16: the write of a create that has passed the title scan succeeds whenever
\* the table answers and the generated id is free, whatever titles the table
\* holds by then: when another create of the same normalized title has
\* written between the scan and the write, both are answered 201 and the
\* table holds two products of the same normalized title.
C16_ConcurrentCreatesBothSucceed ==
  [][\A r \in Slots :
       (/\ pc[r] = "post_put" /\ pc'[r] = "done"
        /\ resp'[r].error # "DATABASE_ERROR"
        /\ \A i \in store : i.id # newId'[r])
       => /\ resp'[r].status = 201
          /\ store' = store \cup {resp'[r].data[1]}
          /\ resp'[r].data[1].id = newId'[r]
          /\ normalized(resp'[r].data[1].title) = normalized(req[r].body.title.s)
          /\ \A i \in store :
               normalized(i.title) = normalized(req[r].body.title.s) =>
                 \E a, b \in store' :
                   a.id # b.id /\ normalized(a.title) = normalized(b.title)]_vars

\* two creates of one title that the scan compares exactly, both answered 201
\* and both stored: each has scanned before the other wrote
C16_Witness ==
  \E r, o \in Slots :
    /\ r # o /\ Answered(r, "POST") /\ Answered(o, "POST")
    /\ resp[r].status = 201 /\ resp[o].status = 201
    /\ resp[r].data[1] \in store /\ resp[o].data[1] \in store
    /\ resp[r].data[1].id # resp[o].data[1].id
    /\ resp[r].data[1].title = resp[o].data[1].title
    /\ resp[r].data[1].title = normalized(resp[r].data[1].title)

\* C17: the write of an update that has read its product succeeds whenever the
\* table answers, also when the product has been deleted since the read: the
\* update is answered 200 and the product is in the table after the write,
\* although its delete was answered 200 before.
C17_UpdateResurrectsDeleted ==
  [][\A r \in Slots :
       (/\ pc[r] = "put_put" /\ pc'[r] = "done"
        /\ existing[r] # NoItem
        /\ resp'[r].error # "DATABASE_ERROR")
       => /\ resp'[r].status = 200
          /\ resp'[r].data[1].id = req[r].id
          /\ resp'[r].data[1] \in store'
          /\ req[r].id \notin deleted']_vars

\* an update and a delete of one product, both answered 200, and the product
\* is in the table: the delete ran between the read and the write of the update
C17_Witness ==
  \E r, o \in Slots :
    /\ Answered(r, "PUT") /\ Answered(o, "DELETE") /\ req[r].id = req[o].id
    /\ resp[r].status = 200 /\ resp[o].status = 200
    /\ existing[r] = existing[o]
    /\ ~quiet[o]
    /\ resp[r].data[1] \in store

\* C18: after a successful update the stored record has the id of
\* the path and the createdAt of the record the update read, whatever the
\* body sends for them, its updatedAt is the time of the update, and every
\* other field it has is the field of the body.
C18_OnlyIdAndCreatedAtKept ==
  [][\A r \in Slots :
       (pc[r] = "put_put" /\ pc'[r] = "done" /\ resp'[r].status = 200) =>
         LET item == resp'[r].data[1]
             body == req[r].body
         IN /\ item \in store'
            /\ item.id = req[r].id
            /\ item.createdAt = existing[r].createdAt
            /\ item.updatedAt = now
            /\ item.title = body.title.s
            /\ item.customizable = body.customizable
            /\ item.price_range => body.price_range
            /\ item.weights_range => body.weights_range
            /\ item.availableWeights => body.availableWeights
            /\ item.defaultWeight => body.defaultWeight
            /\ item.isActive = body.isActive]_vars

\* C19: a bearer token of three segments whose signature segment is empty is
\* answered 401 'Not a JWT' by the segment check, before its header is
\* decoded and before a key is resolved for it.
C19_EmptySegmentIsNotAJwt ==
  \A r \in Slots :
    (/\ GateFinished(r) /\ UsesBearer(r)
     /\ bearerToken(r).n = 3 /\ bearerToken(r).sig.alg = "none")
    => /\ resp[r] = Unauthorized("Invalid token: Not a JWT", "")
       /\ ~Called(r, "decodeHeader")
       /\ ~Called(r, "getSigningKey") /\ ~Called(r, "jwksFetch")

\* the store calls C20 is about: every call on the catalog table, and the
\* writes and deletes of the suggestions record
GuardedCalls ==
  {"Scan", "GetItem", "PutItem", "DeleteItem", "suggestions.PutItem", "suggestions.DeleteItem"}

StoreCalls == GuardedCalls \cup {"suggestions.GetItem"}

\* C20: each of these store calls of a request comes after the gate has
\* verified the token of the request and called next(); a request to
\* /api/products (any method) or a POST, PUT or DELETE to
\* /api/quick-suggestions that the gate has rejected makes no store call.
C20_StoreCallsFollowVerification ==
  \A r \in Slots :
    /\ \A i \in 1..Len(ops[r]) :
         ops[r][i] \in GuardedCalls =>
           /\ Verified(r)
           /\ \E j \in 1..(i - 1) : ops[r][j] = "next"
    /\ (/\ pc[r] # "idle"
        /\ \/ req[r].path = "/api/products"
           \/ req[r].path = "/api/quick-suggestions" /\ req[r].method \in {"POST", "PUT", "DELETE"}
        /\ ~Called(r, "next"))
       => /\ \A i \in 1..Len(ops[r]) : ops[r][i] \notin StoreCalls
          /\ pc[r] = "done" => resp[r].status = 401

\* a verified DELETE of the suggestions has deleted, while a PUT of a product
\* is rejected by the gate without a store call
C20_Witness ==
  \E r, o \in Slots :
    /\ pc[r] = "done" /\ req[r].path = "/api/quick-suggestions"
    /\ Called(r, "next") /\ Called(r, "suggestions.DeleteItem")
    /\ Answered(o, "PUT") /\ req[o].path = "/api/products"
    /\ resp[o].status = 401 /\ UsesBearer(o)

====
